---------------------------- MODULE Spec2Model ----------------------------
(***************************************************************************)
(* A model of the git-visualizer backend (src-tauri): the branch           *)
(* divergence analyzer (git/branches.rs), the merge commit extractor       *)
(* (git/commits.rs), the command gateway (git/cli.rs) and the pull-request *)
(* correlator (github.rs).                                                 *)
(*                                                                         *)
(* Text is modelled by TLA+ strings (Len, \o and SubSeq act on them); a    *)
(* character is a string of length one.                                    *)
(***************************************************************************)
EXTENDS Integers, Sequences, FiniteSets, TLC

VARIABLES
    \* calculate_status (git/branches.rs)
    st_pc, commits_behind, last_commit_date, now, status,
    \* parse_pr_info (git/commits.rs)
    pi_pc, subject, pr_info,
    \* get_merge_commits (git/commits.rs): the build profile, the branch's
    \* merge commits (newest first), the arguments and the value returned
    mc_pc, overflow_checks, merge_history, page, per_page, merge_result,
    \* get_merged_prs (github.rs): the build profile, the limit asked for,
    \* the per_page sent, the records the remote answered with and the
    \* value returned
    mp_pc, mp_overflow_checks, limit, fetch_limit, raw_prs, merged_result,
    \* get_pr_commits (github.rs): the numbers asked for, what the remote
    \* answered to each lookup, the thread handles, the handle the main
    \* thread is at (spawning, then joining), the map and the value returned
    rc_pc, pr_numbers, lookups, handles, next_handle, results, commits_result,
    \* get_default_branch (git/branches.rs): what git answers to each of the
    \* three probes, and the value returned
    db_pc, origin_head, verify_main, verify_master, default_result,
    \* list_branches (git/branches.rs): the base branch it is given, what
    \* the repository holds for each local branch, what git answers to the
    \* enumeration, the time of the call, and the value returned
    br_pc, default_branch, refs, listing, today, branches_result,
    \* parse_remote_url (github.rs): the repository a remote points at and
    \* what each form of its URL parses to
    remote_owner, remote_repo, parsed_urls

st_vars == <<st_pc, commits_behind, last_commit_date, now, status>>
pi_vars == <<pi_pc, subject, pr_info>>
mc_vars == <<mc_pc, overflow_checks, merge_history, page, per_page,
             merge_result>>

mp_vars == <<mp_pc, mp_overflow_checks, limit, fetch_limit, raw_prs,
             merged_result>>

rc_vars == <<rc_pc, pr_numbers, lookups, handles, next_handle, results,
             commits_result>>

db_vars == <<db_pc, origin_head, verify_main, verify_master, default_result>>
br_vars == <<br_pc, default_branch, refs, listing, today, branches_result>>
ru_vars == <<remote_owner, remote_repo, parsed_urls>>

vars == <<st_vars, pi_vars, mc_vars, mp_vars, rc_vars, db_vars, br_vars,
          ru_vars>>

\* what each operation leaves alone: the variables of the others
not_st == <<pi_vars, mc_vars, mp_vars, rc_vars, db_vars, br_vars,
           ru_vars>>
not_pi == <<st_vars, mc_vars, mp_vars, rc_vars, db_vars, br_vars,
           ru_vars>>
not_mc == <<st_vars, pi_vars, mp_vars, rc_vars, db_vars, br_vars,
           ru_vars>>
not_mp == <<st_vars, pi_vars, mc_vars, rc_vars, db_vars, br_vars,
           ru_vars>>
not_rc == <<st_vars, pi_vars, mc_vars, mp_vars, db_vars, br_vars,
           ru_vars>>
not_db == <<st_vars, pi_vars, mc_vars, mp_vars, rc_vars, br_vars,
           ru_vars>>
not_br == <<st_vars, pi_vars, mc_vars, mp_vars, rc_vars, db_vars,
           ru_vars>>
not_ru == <<st_vars, pi_vars, mc_vars, mp_vars, rc_vars, db_vars, br_vars>>

\* Option<T>: None, or Some(v).  NoneStr is the None of an Option<String>,
\* NoneInt the None of an Option<i32>.
NoneStr == [some |-> FALSE, v |-> ""]
NoneInt == [some |-> FALSE, v |-> 0]
Some(x) == [some |-> TRUE, v |-> x]

\* the value of a result variable before the call has returned
NotReturned == "not returned"

(***************************************************************************)
(* Integer helpers                                                         *)
(***************************************************************************)

\* Rust's integer division: the quotient is truncated toward zero.
TruncDiv(a, b) == IF a >= 0 THEN a \div b ELSE -((-a) \div b)

Min(a, b) == IF a <= b THEN a ELSE b

(***************************************************************************)
(* Text helpers (the str methods the code calls)                           *)
(***************************************************************************)

\* the character at position i (1-based)
CharAt(s, i) == SubSeq(s, i, i)

\* s[from..]: the text from position `from` (1-based) to the end
Suffix(s, from) == SubSeq(s, from, Len(s))

\* str::starts_with
starts_with(s, p) == Len(s) >= Len(p) /\ SubSeq(s, 1, Len(p)) = p

\* str::strip_prefix, for a text that starts with p
strip_prefix(s, p) == Suffix(s, Len(p) + 1)

\* str::find: the first position (1-based) at which pat occurs in s, 0 for
\* Option::None
find(s, pat) ==
    LET hits == {i \in 1..(Len(s) - Len(pat) + 1) :
                    SubSeq(s, i, i + Len(pat) - 1) = pat}
    IN  IF hits = {} THEN 0 ELSE CHOOSE i \in hits : \A j \in hits : i <= j

\* char::is_whitespace, over the characters drawn
is_whitespace(c) == c \in {" ", "\t", "\n", "\r"}

\* str::trim: leading and trailing whitespace removed
trim(s) ==
    LET inked == {i \in 1..Len(s) : ~is_whitespace(CharAt(s, i))}
    IN  IF inked = {} THEN ""
        ELSE SubSeq(s, CHOOSE i \in inked : \A j \in inked : i <= j,
                       CHOOSE i \in inked : \A j \in inked : i >= j)

\* char::is_ascii_digit
is_ascii_digit(c) == c \in {"0", "1", "2", "3", "4", "5", "6", "7", "8", "9"}

\* char::to_digit(10) of an ASCII digit
to_digit(c) == find("0123456789", c) - 1

\* i32::MAX and i32::MIN
I32_MAX == 2147483647
I32_MIN == -I32_MAX - 1

\* the digits of text from position i on, accumulated onto acc as
\* i32::from_str does: checked_mul(10) then checked_add(digit) for a positive
\* number, checked_sub(digit) for a negative one; Err on a non-digit or on
\* overflow.
RECURSIVE from_str_digits(_, _, _, _)
from_str_digits(text, i, acc, positive) ==
    IF i > Len(text) THEN [ok |-> TRUE, v |-> acc]
    ELSE IF ~is_ascii_digit(CharAt(text, i)) THEN [ok |-> FALSE, v |-> 0]
    ELSE LET d == to_digit(CharAt(text, i)) IN
         IF positive
         THEN IF acc > (I32_MAX - d) \div 10 THEN [ok |-> FALSE, v |-> 0]
              ELSE from_str_digits(text, i + 1, acc * 10 + d, positive)
         ELSE IF acc < (I32_MIN + d + 9) \div 10 THEN [ok |-> FALSE, v |-> 0]
              ELSE from_str_digits(text, i + 1, acc * 10 - d, positive)

\* str::parse::<i32> (i32::from_str, radix 10): an optional sign, "+" or
\* "-", then one digit or more; Err for an empty text, a lone sign, a
\* non-digit, or a value outside i32.
parse_i32(text) ==
    IF text = "" THEN [ok |-> FALSE, v |-> 0]
    ELSE IF CharAt(text, 1) \in {"+", "-"}
         THEN IF Len(text) = 1 THEN [ok |-> FALSE, v |-> 0]
              ELSE from_str_digits(text, 2, 0, CharAt(text, 1) = "+")
         ELSE from_str_digits(text, 1, 0, TRUE)

\* the decimal text of a natural number
RECURSIVE DecimalText(_)
DecimalText(n) ==
    IF n < 10 THEN SubSeq("0123456789", n + 1, n + 1)
    ELSE DecimalText(n \div 10) \o SubSeq("0123456789", (n % 10) + 1, (n % 10) + 1)


(***************************************************************************)
(* Timestamps.  An author date (%aI) is RFC 3339 text of fixed width: the  *)
(* local date-time, the sign of the UTC offset, the offset.  The model     *)
(* keeps that layout and shortens the fields: two digits of local          *)
(* date-time (a number of ticks), the sign, one digit of offset (ticks).   *)
(* Any other text is no date (such as the empty string get_branch_info     *)
(* stores when the log line has no third field).                           *)
(***************************************************************************)

\* bounds of the timestamps drawn
TicksPerDay == 2
MaxDays == 17
MaxOffset == 1

MaxTick == MaxDays * TicksPerDay

GarbageDate == ""

\* the text git prints for the local date-time `local` at the offset `off`
Rfc3339(local, off) ==
    (IF local < 10 THEN "0" ELSE "") \o DecimalText(local)
        \o (IF off < 0 THEN "-" ELSE "+")
        \o DecimalText(IF off < 0 THEN -off ELSE off)

Dates == {Rfc3339(l, o) : l \in 0..MaxTick, o \in -MaxOffset..MaxOffset}
            \cup {GarbageDate}

\* chrono::DateTime::parse_from_rfc3339 followed by with_timezone(&Utc):
\* the instant the text denotes (its local date-time less its offset), or
\* Err for text that is no RFC 3339 date.
parse_from_rfc3339(text) ==
    IF /\ Len(text) = 4
       /\ is_ascii_digit(CharAt(text, 1))
       /\ is_ascii_digit(CharAt(text, 2))
       /\ CharAt(text, 3) \in {"+", "-"}
       /\ is_ascii_digit(CharAt(text, 4))
    THEN LET local == 10 * to_digit(CharAt(text, 1)) + to_digit(CharAt(text, 2))
             off == IF CharAt(text, 3) = "-"
                    THEN -to_digit(CharAt(text, 4))
                    ELSE to_digit(CharAt(text, 4))
         IN  [ok |-> TRUE, instant |-> local - off]
    ELSE [ok |-> FALSE, instant |-> 0]

\* TimeDelta::num_days: whole days, truncated toward zero.
num_days(delta) == TruncDiv(delta, TicksPerDay)

(***************************************************************************)
(* calculate_status                                                        *)
(***************************************************************************)

BehindStale == 50
BehindConflictRisk == 10
StaleDays == 14

\* A plausible slip: the age compared with >= instead of >.
calculate_status_ge(behind, date, at) ==
    IF behind > BehindStale THEN "stale"
    ELSE IF behind > BehindConflictRisk THEN "conflict-risk"
    ELSE LET parsed == parse_from_rfc3339(date) IN
         IF parsed.ok /\ num_days(at - parsed.instant) >= StaleDays
         THEN "stale"
         ELSE "fresh"

calculate_status(behind, date, at) ==
    IF behind > BehindStale THEN "stale"
    ELSE IF behind > BehindConflictRisk THEN "conflict-risk"
    ELSE LET parsed == parse_from_rfc3339(date) IN
         IF parsed.ok /\ num_days(at - parsed.instant) > StaleDays
         THEN "stale"
         ELSE "fresh"

\* commits_behind values drawn: both sides of each threshold, and a negative
BehindSamples == {-1, 0, 10, 11, 50, 51}
NowSamples == {MaxTick - 1, MaxTick}

StatusInit ==
    /\ st_pc = "call"
    /\ commits_behind \in BehindSamples
    /\ last_commit_date \in Dates
    /\ now \in NowSamples
    /\ status = NotReturned

\* one evaluation of calculate_status, at the time `now`
CalculateStatus ==
    /\ st_pc = "call"
    /\ status' = calculate_status(commits_behind, last_commit_date, now)
    /\ st_pc' = "done"
    /\ UNCHANGED <<commits_behind, last_commit_date, now, not_st>>

StatusNext == CalculateStatus


(***************************************************************************)
(* parse_pr_info (git/commits.rs)                                          *)
(***************************************************************************)

MergePrefix == "Merge pull request #"
FromPrefix == "from "

PrInfo(number, title) == [number |-> number, title |-> title]

\* the third rule: the first "#" (from position i on) followed by a run of
\* digits that parses
RECURSIVE hash_number(_, _)
hash_number(subj, i) ==
    IF i > Len(subj) THEN PrInfo(NoneInt, NoneStr)
    ELSE IF CharAt(subj, i) # "#" THEN hash_number(subj, i + 1)
    ELSE LET rest == Suffix(subj, i + 1)
             stops == {k \in 1..Len(rest) : ~is_ascii_digit(CharAt(rest, k))}
             \* num_end is 0-based in the code: the length of the digit run
             num_end == IF stops = {} THEN Len(rest)
                        ELSE (CHOOSE k \in stops : \A j \in stops : k <= j) - 1
             parsed == parse_i32(SubSeq(rest, 1, num_end))
         IN  IF num_end > 0 /\ parsed.ok
             THEN PrInfo(Some(parsed.v), NoneStr)
             ELSE hash_number(subj, i + 1)

\* the second rule: the first "(#", up to the first ")" after it
paren_number(subj) ==
    LET start == find(subj, "(#")
        end == IF start = 0 THEN 0 ELSE find(Suffix(subj, start), ")")
        \* subject[start + 2 .. start + end], 0-based, in 1-based positions
        num_str == SubSeq(subj, start + 2, start + end - 2)
        parsed == parse_i32(num_str)
        title == trim(SubSeq(subj, 1, start - 1))
    IN  IF start # 0 /\ end # 0 /\ parsed.ok
        THEN PrInfo(Some(parsed.v), IF title = "" THEN NoneStr ELSE Some(title))
        ELSE hash_number(subj, 1)

parse_pr_info(subj) ==
    IF starts_with(subj, MergePrefix)
    THEN LET rest == strip_prefix(subj, MergePrefix)
             sp == find(rest, " ")
             \* rest.splitn(2, ' ')
             num_str == IF sp = 0 THEN rest ELSE SubSeq(rest, 1, sp - 1)
             parsed == parse_i32(num_str)
             tail == Suffix(rest, sp + 1)
         IN  IF parsed.ok
             THEN PrInfo(Some(parsed.v),
                         IF sp = 0 THEN NoneStr
                         ELSE IF starts_with(tail, FromPrefix)
                              THEN Some(strip_prefix(tail, FromPrefix))
                              ELSE Some(tail))
             ELSE paren_number(subj)
    ELSE paren_number(subj)

\* the pieces a commit subject is drawn from, and how many of them
Lexicon ==
    {MergePrefix, FromPrefix, "(#", "(#12)", "#7", ")", " ", "3", "a", "-",
     "+", "2147483648"}
MaxPieces == 4

RECURSIVE Concat(_)
Concat(pieces) ==
    IF pieces = <<>> THEN "" ELSE Head(pieces) \o Concat(Tail(pieces))

Subjects ==
    {Concat(p) : p \in UNION {[1..k -> Lexicon] : k \in 0..MaxPieces}}

PrInfoInit ==
    /\ pi_pc = "call"
    /\ subject \in Subjects
    /\ pr_info = PrInfo(NoneInt, NoneStr)

\* one evaluation of parse_pr_info
ParsePrInfo ==
    /\ pi_pc = "call"
    /\ pr_info' = parse_pr_info(subject)
    /\ pi_pc' = "done"
    /\ UNCHANGED <<subject, not_pi>>

PrInfoNext == ParsePrInfo


(***************************************************************************)
(* get_merge_commits (git/commits.rs)                                      *)
(*                                                                         *)
(* page and per_page are u32.  The model scales the width down: U32_MAX    *)
(* stands for u32::MAX.  An arithmetic overflow panics in a build with     *)
(* overflow checks (the dev profile) and wraps in one without (release).   *)
(***************************************************************************)

U32_MAX == 7
MaxHistory == 5

U32 == 0..U32_MAX

Overflows(x) == x > U32_MAX
Wrap(x) == x % (U32_MAX + 1)

SubjectPool ==
    << "Merge pull request #123 from alice/feature-x",
       "Fix bug (#456)",
       "See issue #789 for details",
       "No reference here",
       "a|b (#7)" >>

\* the i-th merge commit of the branch, newest first
MergeCommit(i) ==
    [full_sha |-> "f00d" \o DecimalText(i),
     sha |-> "f" \o DecimalText(i),
     subject |-> SubjectPool[((i - 1) % Len(SubjectPool)) + 1],
     date |-> "2024-01-0" \o DecimalText((i % 9) + 1) \o "T00:00:00+00:00"]

History(n) == [i \in 1..n |-> MergeCommit(i)]

\* --format=%H|%h|%s|%aI
FormatLine(c) == c.full_sha \o "|" \o c.sha \o "|" \o c.subject \o "|" \o c.date

\* git log --merges --max-count=<max_count> --skip=<skip>: the lines of the
\* history after the first `skip` records, `max_count` of them at most
git_log_merges(history, max_count, skip) ==
    [k \in 1..Min(max_count, IF Len(history) > skip THEN Len(history) - skip ELSE 0)
        |-> FormatLine(history[skip + k])]

NoNode == [some |-> FALSE,
           v |-> [sha |-> "", full_sha |-> "", pr_number |-> NoneInt,
                  pr_title |-> NoneStr, date |-> ""]]

parse_merge_commit(line) ==
    LET \* line.splitn(4, '|')
        p1 == find(line, "|")
        r1 == Suffix(line, p1 + 1)
        p2 == find(r1, "|")
        r2 == Suffix(r1, p2 + 1)
        p3 == find(r2, "|")
        info == parse_pr_info(SubSeq(r2, 1, p3 - 1))
    IN  IF p1 = 0 \/ p2 = 0 \/ p3 = 0 THEN NoNode
        ELSE Some([sha |-> SubSeq(r1, 1, p2 - 1),
                   full_sha |-> SubSeq(line, 1, p1 - 1),
                   pr_number |-> info.number,
                   pr_title |-> info.title,
                   date |-> Suffix(r2, p3 + 1)])

\* .filter(|s| !s.is_empty()).filter_map(|line| parse_merge_commit(line))
RECURSIVE parse_lines(_)
parse_lines(lines) ==
    IF lines = <<>> THEN <<>>
    ELSE LET node == parse_merge_commit(Head(lines)) IN
         IF Head(lines) # "" /\ node.some
         THEN <<node.v>> \o parse_lines(Tail(lines))
         ELSE parse_lines(Tail(lines))

MergeOk(nodes, has_more) == [kind |-> "Ok", nodes |-> nodes, has_more |-> has_more]
MergeErr == [kind |-> "Err", nodes |-> <<>>, has_more |-> FALSE]
MergePanic == [kind |-> "panic", nodes |-> <<>>, has_more |-> FALSE]
MergePending == [kind |-> NotReturned, nodes |-> <<>>, has_more |-> FALSE]

\* the value get_merge_commits returns when git answers
merge_page(history, pg, pp) ==
    LET skip == Wrap(pg * pp)
        \* `limit` in the code: one more than the page, to see whether
        \* there are more
        max_count == Wrap(pp + 1)
        nodes == parse_lines(git_log_merges(history, max_count, skip))
        has_more == Len(nodes) > pp
    IN  MergeOk(IF has_more THEN SubSeq(nodes, 1, Len(nodes) - 1) ELSE nodes,
                has_more)

MergeInit ==
    /\ mc_pc = "call"
    /\ overflow_checks \in BOOLEAN
    /\ merge_history \in {History(n) : n \in 0..MaxHistory}
    /\ page \in U32
    /\ per_page \in U32
    /\ merge_result = MergePending

\* get_merge_commits, where an overflow check fails: the thread panics
GetMergeCommitsPanic ==
    /\ mc_pc = "call"
    /\ overflow_checks
    /\ Overflows(page * per_page) \/ Overflows(per_page + 1)
    /\ merge_result' = MergePanic
    /\ mc_pc' = "done"
    /\ UNCHANGED <<overflow_checks, merge_history, page, per_page, not_mc>>

\* get_merge_commits, where cli::run fails (git missing, not a repository,
\* unknown branch, ...): the error is returned
GetMergeCommitsErr ==
    /\ mc_pc = "call"
    /\ ~(overflow_checks /\ (Overflows(page * per_page) \/ Overflows(per_page + 1)))
    /\ merge_result' = MergeErr
    /\ mc_pc' = "done"
    /\ UNCHANGED <<overflow_checks, merge_history, page, per_page, not_mc>>

\* get_merge_commits, where git answers
GetMergeCommits ==
    /\ mc_pc = "call"
    /\ ~(overflow_checks /\ (Overflows(page * per_page) \/ Overflows(per_page + 1)))
    /\ merge_result' = merge_page(merge_history, page, per_page)
    /\ mc_pc' = "done"
    /\ UNCHANGED <<overflow_checks, merge_history, page, per_page, not_mc>>

MergeNext == GetMergeCommitsPanic \/ GetMergeCommitsErr \/ GetMergeCommits


(***************************************************************************)
(* get_merged_prs (github.rs)                                              *)
(*                                                                         *)
(* limit is a usize; USIZE_MAX stands for usize::MAX, scaled down.         *)
(***************************************************************************)

USIZE_MAX == 5
MaxRaw == 3

\* a GitHubPR as deserialized: the two merge fields are optional; the
\* required fields are told by the number
GitHubPR(number, merged_at, merge_commit_sha, commits) ==
    [number |-> number, title |-> "PR " \o DecimalText(number),
     merged_at |-> merged_at, merge_commit_sha |-> merge_commit_sha,
     commits |-> commits]

\* the n-th record of a response, one for each way its optional fields
\* may be present
RawRecords(n) ==
    {GitHubPR(n, at, sha, commits) :
        at \in {NoneStr, Some("2024-02-01T00:00:00Z")},
        sha \in {NoneStr, Some("beef" \o DecimalText(n))},
        commits \in {IF n % 2 = 0 THEN NoneInt ELSE Some(n + 1)}}

RECURSIVE RawLists(_)
RawLists(n) ==
    IF n = 0 THEN {<<>>}
    ELSE RawLists(n - 1) \cup
         {Append(l, r) : l \in {x \in RawLists(n - 1) : Len(x) = n - 1},
                         r \in RawRecords(n)}

\* the closure of filter_map: None for a record that lacks a merge field
to_merged(pr) ==
    IF ~pr.merged_at.some \/ ~pr.merge_commit_sha.some
    THEN [some |-> FALSE, v |-> <<>>]
    ELSE Some([number |-> pr.number, title |-> pr.title,
               merged_at |-> pr.merged_at.v,
               merge_commit_sha |-> pr.merge_commit_sha.v,
               commit_count |-> IF pr.commits.some THEN pr.commits.v ELSE 1])

\* A plausible slip: take(limit) applied before the filter.
RECURSIVE filter_all(_)
filter_all(prs) ==
    IF prs = <<>> THEN <<>>
    ELSE LET m == to_merged(Head(prs)) IN
         IF m.some THEN <<m.v>> \o filter_all(Tail(prs))
         ELSE filter_all(Tail(prs))

take_then_filter(prs, n) == filter_all(SubSeq(prs, 1, Min(n, Len(prs))))

\* prs.into_iter().filter_map(..).take(n).collect()
RECURSIVE filter_map_take(_, _)
filter_map_take(prs, n) ==
    IF n = 0 \/ prs = <<>> THEN <<>>
    ELSE LET m == to_merged(Head(prs)) IN
         IF m.some THEN <<m.v>> \o filter_map_take(Tail(prs), n - 1)
         ELSE filter_map_take(Tail(prs), n)

PrsOk(prs) == [kind |-> "Ok", prs |-> prs]
PrsErr == [kind |-> "Err", prs |-> <<>>]
PrsPanic == [kind |-> "panic", prs |-> <<>>]
PrsPending == [kind |-> NotReturned, prs |-> <<>>]

NoRequest == -1

MergedPrsInit ==
    /\ mp_pc = "call"
    /\ mp_overflow_checks \in BOOLEAN
    /\ limit \in 0..USIZE_MAX
    /\ fetch_limit = NoRequest
    /\ raw_prs = <<>>
    /\ merged_result = PrsPending

\* limit * 2 overflows in a build with overflow checks: the thread panics
GetMergedPrsPanic ==
    /\ mp_pc = "call"
    /\ mp_overflow_checks /\ limit * 2 > USIZE_MAX
    /\ merged_result' = PrsPanic
    /\ mp_pc' = "done"
    /\ UNCHANGED <<mp_overflow_checks, limit, fetch_limit, raw_prs, not_mp>>

\* gh cannot be run, exits with a failure, or answers with text that is not
\* UTF-8 or not a list of pull requests: an error is returned
GetMergedPrsErr ==
    /\ mp_pc = "call"
    /\ ~(mp_overflow_checks /\ limit * 2 > USIZE_MAX)
    /\ fetch_limit' = (limit * 2) % (USIZE_MAX + 1)
    /\ merged_result' = PrsErr
    /\ mp_pc' = "done"
    /\ UNCHANGED <<mp_overflow_checks, limit, raw_prs, not_mp>>

\* the remote answers with a list of closed pull requests
GetMergedPrs ==
    /\ mp_pc = "call"
    /\ ~(mp_overflow_checks /\ limit * 2 > USIZE_MAX)
    /\ fetch_limit' = (limit * 2) % (USIZE_MAX + 1)
    /\ \E prs \in RawLists(MaxRaw) :
          /\ raw_prs' = prs
          /\ merged_result' = PrsOk(filter_map_take(prs, limit))
    /\ mp_pc' = "done"
    /\ UNCHANGED <<mp_overflow_checks, limit, not_mp>>

MergedPrsNext == GetMergedPrsPanic \/ GetMergedPrsErr \/ GetMergedPrs


(***************************************************************************)
(* get_pr_commits (github.rs)                                              *)
(*                                                                         *)
(* The main thread spawns one worker per number, in order, then joins the  *)
(* handles in order and inserts what each returned into the map.  A worker *)
(* is one step: its gh call and the shortening of the hashes.              *)
(***************************************************************************)

MaxPrs == 3
PrNumbers == {7, 42}

ShortShaLen == 7

\* c.sha[..7.min(c.sha.len())]: a hash is hexadecimal text, so that its
\* bytes are its characters
short_sha(sha) == SubSeq(sha, 1, Min(ShortShaLen, Len(sha)))

\* the answers of gh api repos/../pulls/<num>/commits: the command cannot
\* be run, it exits with a failure, its output is no list of commits, or it
\* is a list of commits (their hashes)
CommitLists ==
    { <<"0123456789abcdef", "abc">>, <<"fedcba9876543210">>, <<>> }

LookupOutcomes ==
    {[kind |-> k, shas |-> <<>>] :
        k \in {"command failed", "status failure", "unparseable"}}
    \cup {[kind |-> "commits", shas |-> l] : l \in CommitLists}

NoLookup == [kind |-> "none yet", shas |-> <<>>]

NoEntry == [some |-> FALSE, v |-> [num |-> 0, shas |-> <<>>]]

\* JoinHandle<Option<(i64, Vec<String>)>>
Unspawned == [state |-> "unspawned", value |-> NoEntry]
Running == [state |-> "running", value |-> NoEntry]
Finished(value) == [state |-> "finished", value |-> value]

\* A plausible slip: the hashes kept whole.
worker_whole(num, outcome) ==
    IF outcome.kind # "commits" THEN Finished(NoEntry)
    ELSE Finished(Some([num |-> num, shas |-> outcome.shas]))

\* the closure a worker runs, given the answer of gh
worker(num, outcome) ==
    IF outcome.kind # "commits" THEN Finished(NoEntry)
    ELSE Finished(Some(
            [num |-> num,
             shas |-> [i \in 1..Len(outcome.shas) |->
                         short_sha(outcome.shas[i])]]))

\* A plausible slip: the first value of a key kept (entry().or_insert()).
insert_first(map, key, value) ==
    [k \in DOMAIN map \cup {key} |-> IF k \in DOMAIN map THEN map[k] ELSE value]

\* HashMap::insert
insert(map, key, value) ==
    [k \in DOMAIN map \cup {key} |-> IF k = key THEN value ELSE map[k]]

EmptyMap == <<>>

CommitsOk(map) == [kind |-> "Ok", map |-> map]
CommitsPending == [kind |-> NotReturned, map |-> EmptyMap]

RECURSIVE ListsUpTo(_, _)
ListsUpTo(S, n) ==
    IF n = 0 THEN {<<>>}
    ELSE ListsUpTo(S, n - 1) \cup
         {Append(l, x) : l \in {y \in ListsUpTo(S, n - 1) : Len(y) = n - 1},
                         x \in S}

PrCommitsInit ==
    /\ rc_pc = "spawn"
    /\ pr_numbers \in ListsUpTo(PrNumbers, MaxPrs)
    /\ lookups = [i \in 1..Len(pr_numbers) |-> NoLookup]
    /\ handles = [i \in 1..Len(pr_numbers) |-> Unspawned]
    /\ next_handle = 1
    /\ results = EmptyMap
    /\ commits_result = CommitsPending

\* the main thread: thread::spawn for the next number
Spawn ==
    /\ rc_pc = "spawn"
    /\ next_handle <= Len(pr_numbers)
    /\ handles' = [handles EXCEPT ![next_handle] = Running]
    /\ next_handle' = next_handle + 1
    /\ UNCHANGED <<rc_pc, pr_numbers, lookups, results, commits_result, not_rc>>

\* the main thread: every worker is spawned (collect), the join loop starts
Collect ==
    /\ rc_pc = "spawn"
    /\ next_handle > Len(pr_numbers)
    /\ rc_pc' = "join"
    /\ next_handle' = 1
    /\ UNCHANGED <<pr_numbers, lookups, handles, results, commits_result, not_rc>>

\* worker i runs to its end: gh answers, the hashes are shortened
Worker(i) ==
    /\ handles[i].state = "running"
    /\ \E outcome \in LookupOutcomes :
          /\ lookups' = [lookups EXCEPT ![i] = outcome]
          /\ handles' = [handles EXCEPT ![i] = worker(pr_numbers[i], outcome)]
    /\ UNCHANGED <<rc_pc, pr_numbers, next_handle, results, commits_result, not_rc>>

\* the main thread: handle.join() returns once the worker has ended; what
\* it returned, if anything, is inserted
Join ==
    /\ rc_pc = "join"
    /\ next_handle <= Len(pr_numbers)
    /\ handles[next_handle].state = "finished"
    /\ LET h == handles[next_handle] IN
       results' = IF h.value.some
                  THEN insert(results, h.value.v.num, h.value.v.shas)
                  ELSE results
    /\ next_handle' = next_handle + 1
    /\ UNCHANGED <<rc_pc, pr_numbers, lookups, handles, commits_result, not_rc>>

\* the main thread: Ok(results)
ReturnCommits ==
    /\ rc_pc = "join"
    /\ next_handle > Len(pr_numbers)
    /\ commits_result' = CommitsOk(results)
    /\ rc_pc' = "done"
    /\ UNCHANGED <<pr_numbers, lookups, handles, next_handle, results, not_rc>>

PrCommitsNext ==
    \/ Spawn
    \/ Collect
    \/ \E i \in 1..Len(pr_numbers) : Worker(i)
    \/ Join
    \/ ReturnCommits


(***************************************************************************)
(* The command gateway (git/cli.rs)                                        *)
(***************************************************************************)

\* what running git gives: whether the process could be spawned, its exit
\* status, its output and whether that is UTF-8
Process(spawn, success, stdout, stderr, utf8) ==
    [spawn |-> spawn, success |-> success, stdout |-> stdout,
     stderr |-> stderr, utf8 |-> utf8]

Exited(stdout) == Process("ok", TRUE, stdout, "", TRUE)
Failed(stderr) == Process("ok", FALSE, "", stderr, TRUE)
InvalidPath == Process("invalid path", FALSE, "", "", TRUE)
NotFound == Process("not found", FALSE, "", "", TRUE)
IoError == Process("io error", FALSE, "", "", TRUE)
NotUtf8 == Process("ok", TRUE, "", "", FALSE)
NotRun == Process("not run", FALSE, "", "", TRUE)

\* the ways a git command fails
Failures ==
    {InvalidPath, NotFound, IoError, NotUtf8,
     Failed("fatal: not a git repository (or any of the parent directories)"),
     Failed("fatal: Needed a single revision")}

\* str::contains
contains(s, pat) == find(s, pat) # 0

GitOk(stdout) == [ok |-> TRUE, v |-> stdout, err |-> ""]
GitErr(err) == [ok |-> FALSE, v |-> "", err |-> err]

\* cli::run, given what the process did
run(proc) ==
    IF proc.spawn = "invalid path" THEN GitErr("InvalidPath")
    ELSE IF proc.spawn = "not found" THEN GitErr("GitNotFound")
    ELSE IF proc.spawn # "ok" THEN GitErr("CommandFailed")
    ELSE IF ~proc.success
         THEN IF contains(proc.stderr, "not a git repository")
              THEN GitErr("NotARepo")
              ELSE GitErr("CommandFailed")
    ELSE IF ~proc.utf8 THEN GitErr("InvalidUtf8")
    ELSE GitOk(proc.stdout)

(***************************************************************************)
(* get_default_branch (git/branches.rs)                                    *)
(***************************************************************************)

OriginPrefix == "refs/remotes/origin/"

\* A plausible slip: the failure of the first probe handed to the caller.
get_default_branch_propagate(head, main, master) ==
    LET output == run(head)
        trimmed == trim(output.v)
    IN  IF ~output.ok THEN GitErr(output.err)
        ELSE IF starts_with(trimmed, OriginPrefix)
        THEN GitOk(strip_prefix(trimmed, OriginPrefix))
        ELSE IF run(main).ok THEN GitOk("main")
        ELSE IF run(master).ok THEN GitOk("master")
        ELSE GitOk("HEAD")

\* get_default_branch, given what git answers to symbolic-ref
\* refs/remotes/origin/HEAD, rev-parse --verify main and rev-parse --verify
\* master
get_default_branch(head, main, master) ==
    LET output == run(head)
        trimmed == trim(output.v)
    IN  IF output.ok /\ starts_with(trimmed, OriginPrefix)
        THEN GitOk(strip_prefix(trimmed, OriginPrefix))
        ELSE IF run(main).ok THEN GitOk("main")
        ELSE IF run(master).ok THEN GitOk("master")
        ELSE GitOk("HEAD")

\* what symbolic-ref may answer
OriginHeads ==
    {Exited("refs/remotes/origin/main\n"),
     Exited("refs/remotes/origin/develop\n"),
     Exited("refs/remotes/origin/master\n"),
     Exited("refs/heads/trunk\n")} \cup Failures

\* what rev-parse --verify may answer
Verifications == {Exited("3f2a9c1\n")} \cup Failures

DefaultPending == [ok |-> FALSE, v |-> "", err |-> NotReturned]

DefaultBranchInit ==
    /\ db_pc = "call"
    /\ origin_head = NotRun
    /\ verify_main = NotRun
    /\ verify_master = NotRun
    /\ default_result = DefaultPending

\* get_default_branch: the first probe answers with the remote's default
GetDefaultBranchOrigin ==
    /\ db_pc = "call"
    /\ \E head \in OriginHeads :
          /\ starts_with(trim(run(head).v), OriginPrefix)
          /\ origin_head' = head
          /\ default_result' = get_default_branch(head, NotRun, NotRun)
    /\ db_pc' = "done"
    /\ UNCHANGED <<verify_main, verify_master, not_db>>

\* get_default_branch: the first probe gives nothing, main is verified
GetDefaultBranchMain ==
    /\ db_pc = "call"
    /\ \E head \in OriginHeads, main \in Verifications :
          /\ ~starts_with(trim(run(head).v), OriginPrefix)
          /\ run(main).ok
          /\ origin_head' = head
          /\ verify_main' = main
          /\ default_result' = get_default_branch(head, main, NotRun)
    /\ db_pc' = "done"
    /\ UNCHANGED <<verify_master, not_db>>

\* get_default_branch: neither gives anything, master is probed
GetDefaultBranchMaster ==
    /\ db_pc = "call"
    /\ \E head \in OriginHeads, main \in Verifications,
          master \in Verifications :
          /\ ~starts_with(trim(run(head).v), OriginPrefix)
          /\ ~run(main).ok
          /\ origin_head' = head
          /\ verify_main' = main
          /\ verify_master' = master
          /\ default_result' = get_default_branch(head, main, master)
    /\ db_pc' = "done"
    /\ UNCHANGED not_db

DefaultBranchNext ==
    GetDefaultBranchOrigin \/ GetDefaultBranchMain \/ GetDefaultBranchMaster


(***************************************************************************)
(* list_branches (git/branches.rs)                                         *)
(***************************************************************************)

\* str::split(sep): the pieces between the occurrences of sep, empty ones
\* included
RECURSIVE split(_, _)
split(s, sep) ==
    LET at == find(s, sep)
    IN  IF at = 0 THEN <<s>>
        ELSE <<SubSeq(s, 1, at - 1)>> \o split(Suffix(s, at + Len(sep)), sep)

\* str::split_whitespace: the maximal runs of non-whitespace characters
RECURSIVE split_whitespace(_)
split_whitespace(s) ==
    LET inked == {i \in 1..Len(s) : ~is_whitespace(CharAt(s, i))}
    IN  IF inked = {} THEN <<>>
        ELSE LET from == CHOOSE i \in inked : \A j \in inked : i <= j
                 blanks == {i \in from..Len(s) : is_whitespace(CharAt(s, i))}
                 to == IF blanks = {} THEN Len(s) + 1
                       ELSE CHOOSE i \in blanks : \A j \in blanks : i <= j
             IN  <<SubSeq(s, from, to - 1)>> \o split_whitespace(Suffix(s, to))

\* str::lines: the pieces between line feeds, a final empty piece dropped
\* and a carriage return at the end of a piece removed
lines(s) ==
    LET pieces == split(s, "\n")
        kept == IF pieces[Len(pieces)] = ""
                THEN SubSeq(pieces, 1, Len(pieces) - 1)
                ELSE pieces
    IN  [i \in 1..Len(kept) |->
            IF kept[i] # "" /\ CharAt(kept[i], Len(kept[i])) = "\r"
            THEN SubSeq(kept[i], 1, Len(kept[i]) - 1)
            ELSE kept[i]]

\* the characters of a timestamp, in byte order
Bytes == "+-0123456789"

\* str::cmp: the bytewise lexicographic order of two texts
RECURSIVE cmp(_, _)
cmp(a, b) ==
    IF a = "" THEN (IF b = "" THEN "Equal" ELSE "Less")
    ELSE IF b = "" THEN "Greater"
    ELSE LET x == find(Bytes, CharAt(a, 1))
             y == find(Bytes, CharAt(b, 1))
         IN  IF x < y THEN "Less"
             ELSE IF x > y THEN "Greater"
             ELSE cmp(Suffix(a, 2), Suffix(b, 2))

\* What the repository holds for one local branch: the counts rev-list
\* prints against the base, the head commit, whether the branch shares
\* history with the base (and the fork point if so), and the git command,
\* if any, that fails for it (the ref deleted or the object store damaged
\* under the call).
Ref(name, counts, date, shared, fault) ==
    [name |-> name, counts |-> counts, head |-> "4b6f432", author |-> "Ann",
     date |-> date, shared |-> shared, fork |-> "9fceb02",
     fork_date |-> Rfc3339(1, 0), fault |-> fault]

\* git rev-list --left-right --count base...branch
git_rev_list(ref) ==
    IF ref.fault = "rev-list" THEN Failed("fatal: bad revision")
    ELSE Exited(ref.counts)

\* git log -1 --format=%H|%an|%aI branch
git_log(ref) ==
    IF ref.fault = "log" THEN Failed("fatal: bad object")
    ELSE Exited(ref.head \o "|" \o ref.author \o "|" \o ref.date \o "\n")

\* git merge-base base branch: the best common ancestor; without one git
\* prints nothing and exits with status 1
git_merge_base(ref) ==
    IF ref.fault = "merge-base" THEN Failed("fatal: Not a valid object name")
    ELSE IF ~ref.shared THEN Failed("")
    ELSE Exited(ref.fork \o "\n")

\* git log -1 --format=%aI sha
git_log_date(ref) ==
    IF ref.fault = "fork date" THEN Failed("fatal: bad object")
    ELSE Exited(ref.fork_date \o "\n")

\* git branch --format=%(refname:short): the names, one per line
RECURSIVE git_branch(_)
git_branch(rs) ==
    IF rs = <<>> THEN ""
    ELSE rs[1].name \o "\n" \o git_branch(Tail(rs))

\* get_ahead_behind
get_ahead_behind(ref) ==
    LET output == run(git_rev_list(ref)) IN
    IF ~output.ok THEN [ok |-> FALSE, ahead |-> 0, behind |-> 0]
    ELSE LET parts == split_whitespace(trim(output.v))
             behind == IF Len(parts) >= 1 /\ parse_i32(parts[1]).ok
                       THEN parse_i32(parts[1]).v ELSE 0
             ahead == IF Len(parts) >= 2 /\ parse_i32(parts[2]).ok
                      THEN parse_i32(parts[2]).v ELSE 0
         IN  [ok |-> TRUE, ahead |-> ahead, behind |-> behind]

\* get_fork_point
get_fork_point(ref) ==
    LET merge_base == run(git_merge_base(ref))
        sha == trim(merge_base.v)
    IN  IF ~merge_base.ok
        THEN [ok |-> FALSE, sha |-> NoneStr, date |-> NoneStr]
        ELSE IF sha = ""
        THEN [ok |-> TRUE, sha |-> NoneStr, date |-> NoneStr]
        ELSE LET date_output == run(git_log_date(ref)) IN
             IF ~date_output.ok
             THEN [ok |-> FALSE, sha |-> NoneStr, date |-> NoneStr]
             ELSE [ok |-> TRUE, sha |-> Some(sha),
                   date |-> Some(trim(date_output.v))]

Branch(name, ahead, behind, date, author, stat, head, fork_sha, fork_date) ==
    [name |-> name, commits_ahead |-> ahead, commits_behind |-> behind,
     last_commit_date |-> date, last_commit_author |-> author,
     status |-> stat, head_sha |-> head, diverged_from_sha |-> fork_sha,
     diverged_from_date |-> fork_date]

NoBranch == Branch("", 0, 0, "", "", "", "", NoneStr, NoneStr)

\* get_branch_info, called at the time `at`
get_branch_info(ref, at) ==
    LET counts == get_ahead_behind(ref)
        log_output == run(git_log(ref))
        parts == split(trim(log_output.v), "|")
        date == IF Len(parts) >= 3 THEN parts[3] ELSE ""
        fork_point == get_fork_point(ref)
    IN  IF ~counts.ok \/ ~log_output.ok \/ ~fork_point.ok
        THEN [ok |-> FALSE, v |-> NoBranch]
        ELSE [ok |-> TRUE,
              v |-> Branch(ref.name, counts.ahead, counts.behind, date,
                           IF Len(parts) >= 2 THEN parts[2] ELSE "Unknown",
                           calculate_status(counts.behind, date, at),
                           parts[1], fork_point.sha, fork_point.date)]

\* one step of the stable sort: b placed behind every record that does not
\* compare Greater to it under |a, b| b.last_commit_date.cmp(a.last_commit_date)
RECURSIVE place(_, _)
place(sorted, b) ==
    IF sorted = <<>> THEN <<b>>
    ELSE IF cmp(b.last_commit_date, sorted[1].last_commit_date) = "Greater"
    THEN <<b>> \o sorted
    ELSE <<sorted[1]>> \o place(Tail(sorted), b)

\* branches.sort_by(|a, b| b.last_commit_date.cmp(&a.last_commit_date))
RECURSIVE sort_by(_)
sort_by(bs) ==
    IF bs = <<>> THEN <<>>
    ELSE place(sort_by(SubSeq(bs, 1, Len(bs) - 1)), bs[Len(bs)])

\* the ref a listed name stands for
RefOf(rs, name) == CHOOSE ref \in {rs[i] : i \in 1..Len(rs)} : ref.name = name

\* the loop of list_branches: a record pushed for every name whose
\* get_branch_info is Ok
RECURSIVE collect(_, _, _)
collect(names, rs, at) ==
    IF names = <<>> THEN <<>>
    ELSE LET info == get_branch_info(RefOf(rs, names[1]), at) IN
         (IF info.ok THEN <<info.v>> ELSE <<>>)
             \o collect(Tail(names), rs, at)

BranchesOk(bs) == [kind |-> "Ok", branches |-> bs, err |-> ""]
BranchesErr(err) == [kind |-> "Err", branches |-> <<>>, err |-> err]
BranchesPending == [kind |-> NotReturned, branches |-> <<>>, err |-> ""]

\* A plausible slip: the base branch not filtered out.
branch_names_all(output, base) ==
    SelectSeq(lines(output), LAMBDA name : name # "")

\* the names list_branches looks at: non-empty lines other than the base
branch_names(output, base) ==
    SelectSeq(lines(output), LAMBDA name : name # "" /\ name # base)

\* list_branches, past the enumeration
list_branches(output, rs, base, at) ==
    BranchesOk(sort_by(collect(branch_names(output, base), rs, at)))

\* bound of the repositories drawn: the number of local branches
MaxBranches == 3

\* the branch names, in the order git lists them
BranchNames == <<"dev", "feat", "main", "wip">>

\* the text the gateway may hand back for the range comparison: counts on
\* either side of the conflict-risk threshold, one past i32::MAX, a line
\* with one count, a line with none, and a count that carries a sign (git
\* prints none; the gateway runs whatever program is named git on the PATH
\* and get_ahead_behind takes its text as it comes)
CountTexts == {"12\t0\n", "-3\t1\n", "2147483648\t+2\n", "7\n", "\n"}

\* the heads drawn: dates of which the later one carries the smaller local
\* date-time, and each of the count texts
Healthy ==
    {<<"3\t1\n", date>> :
        date \in {Rfc3339(30, -1), Rfc3339(31, 1), Rfc3339(2, 0)}}
        \cup {<<counts, Rfc3339(30, -1)>> : counts \in CountTexts}

\* what a branch name may stand for: a branch every command answers for, a
\* branch without common history with the base, a branch one command fails
\* for
RefsOf(name) ==
    {Ref(name, h[1], h[2], TRUE, "") : h \in Healthy}
        \cup {Ref(name, "1\t1\n", Rfc3339(30, -1), FALSE, "")}
        \cup {Ref(name, "3\t1\n", Rfc3339(30, -1), TRUE, fault) :
                fault \in {"rev-list", "log", "merge-base", "fork date"}}

\* the repositories: some of the names, each with what it stands for
RECURSIVE Repositories(_)
Repositories(n) ==
    IF n = 0 THEN {<<>>}
    ELSE LET shorter == Repositories(n - 1) IN
         shorter \cup {Append(rs, ref) : rs \in shorter,
                                         ref \in RefsOf(BranchNames[n])}

BranchesInit ==
    /\ br_pc = "call"
    /\ default_branch \in {"main", "HEAD"}
    /\ refs \in Repositories(MaxBranches)
    /\ listing \in {Exited(git_branch(refs)),
                    Failed("fatal: not a git repository")}
    /\ today = MaxTick
    /\ branches_result = BranchesPending

\* list_branches: the enumeration fails
ListBranchesErr ==
    /\ br_pc = "call"
    /\ ~run(listing).ok
    /\ branches_result' = BranchesErr(run(listing).err)
    /\ br_pc' = "done"
    /\ UNCHANGED <<default_branch, refs, listing, today, not_br>>

\* list_branches: the enumeration succeeds
ListBranches ==
    /\ br_pc = "call"
    /\ run(listing).ok
    /\ branches_result' =
          list_branches(run(listing).v, refs, default_branch, today)
    /\ br_pc' = "done"
    /\ UNCHANGED <<default_branch, refs, listing, today, not_br>>

BranchesNext == ListBranchesErr \/ ListBranches


(***************************************************************************)
(* parse_remote_url (github.rs)                                            *)
(***************************************************************************)

\* str::ends_with
ends_with(s, p) ==
    Len(s) >= Len(p) /\ SubSeq(s, Len(s) - Len(p) + 1, Len(s)) = p

\* str::strip_suffix(p).unwrap_or(s)
strip_suffix_or(s, p) ==
    IF ends_with(s, p) THEN SubSeq(s, 1, Len(s) - Len(p)) ELSE s

\* str::strip_prefix(p).unwrap_or(s)
strip_prefix_or(s, p) == IF starts_with(s, p) THEN strip_prefix(s, p) ELSE s

SshPrefix == "git@github.com:"
GitSuffix == ".git"
Host == "github.com"

NoRepository == [some |-> FALSE, owner |-> "", repo |-> ""]
Repository(owner, repo) == [some |-> TRUE, owner |-> owner, repo |-> repo]

\* A plausible slip: the ".git" suffix left on an https URL.
parse_https_suffixed(url) ==
    IF ~contains(url, Host) THEN NoRepository
    ELSE LET idx == find(url, Host)
             rest == strip_prefix_or(Suffix(url, idx + Len(Host)), "/")
             parts == split(rest, "/")
         IN  IF Len(parts) >= 2
             THEN Repository(parts[1], parts[2])
             ELSE NoRepository

\* the second half of parse_remote_url: the path behind the first
\* "github.com"
parse_https(url) ==
    IF ~contains(url, Host) THEN NoRepository
    ELSE LET stripped == strip_suffix_or(url, GitSuffix)
             idx == find(stripped, Host)
         IN  IF idx = 0 THEN NoRepository
             ELSE LET rest == strip_prefix_or(
                                  Suffix(stripped, idx + Len(Host)), "/")
                      parts == split(rest, "/")
                  IN  IF Len(parts) >= 2
                      THEN Repository(parts[1], parts[2])
                      ELSE NoRepository

\* parse_remote_url
parse_remote_url(text) ==
    LET url == trim(text)
        ssh == IF starts_with(url, SshPrefix)
               THEN split(strip_suffix_or(strip_prefix(url, SshPrefix),
                                          GitSuffix), "/")
               ELSE <<>>
    IN  IF starts_with(url, SshPrefix) /\ Len(ssh) = 2
        THEN Repository(ssh[1], ssh[2])
        ELSE parse_https(url)

\* the three forms of the URL of a repository
Forms == {"ssh", "https .git", "https"}

RemoteUrl(form, owner, repo) ==
    IF form = "ssh" THEN SshPrefix \o owner \o "/" \o repo \o GitSuffix
    ELSE IF form = "https .git"
    THEN "https://github.com/" \o owner \o "/" \o repo \o GitSuffix
    ELSE "https://github.com/" \o owner \o "/" \o repo

\* the names drawn
Owners == {"anthropics", "o", "git-hub", "github.com"}
Repos == {"claude-code", "r", ".github", "github.com", "a.b", "site.git",
          "dot.git.io"}

NotParsed == [some |-> FALSE, owner |-> NotReturned, repo |-> NotReturned]

RemoteUrlInit ==
    /\ remote_owner \in Owners
    /\ remote_repo \in Repos
    /\ parsed_urls = [form \in Forms |-> NotParsed]

\* one call of parse_remote_url, on one form of the URL (as git prints it,
\* with a line feed)
ParseRemoteUrl ==
    \E form \in Forms :
        /\ parsed_urls[form] = NotParsed
        /\ parsed_urls' = [parsed_urls EXCEPT ![form] =
              parse_remote_url(
                  RemoteUrl(form, remote_owner, remote_repo) \o "\n")]
        /\ UNCHANGED <<remote_owner, remote_repo, not_ru>>

RemoteUrlNext == ParseRemoteUrl


(***************************************************************************)
(* Specifications: one per operation.  The operations share no state, so   *)
(* each is checked with the variables of the others idle.                  *)
(***************************************************************************)

StatusIdle ==
    /\ st_pc = "idle"
    /\ commits_behind = 0
    /\ last_commit_date = GarbageDate
    /\ now = 0
    /\ status = NotReturned

PrInfoIdle ==
    /\ pi_pc = "idle"
    /\ subject = ""
    /\ pr_info = PrInfo(NoneInt, NoneStr)

MergeIdle ==
    /\ mc_pc = "idle"
    /\ overflow_checks = FALSE
    /\ merge_history = <<>>
    /\ page = 0
    /\ per_page = 0
    /\ merge_result = MergePending

MergedPrsIdle ==
    /\ mp_pc = "idle"
    /\ mp_overflow_checks = FALSE
    /\ limit = 0
    /\ fetch_limit = NoRequest
    /\ raw_prs = <<>>
    /\ merged_result = PrsPending

PrCommitsIdle ==
    /\ rc_pc = "idle"
    /\ pr_numbers = <<>>
    /\ lookups = <<>>
    /\ handles = <<>>
    /\ next_handle = 1
    /\ results = EmptyMap
    /\ commits_result = CommitsPending

DefaultBranchIdle ==
    /\ db_pc = "idle"
    /\ origin_head = NotRun
    /\ verify_main = NotRun
    /\ verify_master = NotRun
    /\ default_result = DefaultPending

BranchesIdle ==
    /\ br_pc = "idle"
    /\ default_branch = "main"
    /\ refs = <<>>
    /\ listing = NotRun
    /\ today = 0
    /\ branches_result = BranchesPending

RemoteUrlIdle ==
    /\ remote_owner = ""
    /\ remote_repo = ""
    /\ parsed_urls = [form \in Forms |-> NotParsed]

InitStatus ==
    /\ StatusInit
    /\ PrInfoIdle
    /\ MergeIdle
    /\ MergedPrsIdle
    /\ PrCommitsIdle
    /\ DefaultBranchIdle
    /\ BranchesIdle
    /\ RemoteUrlIdle
SpecStatus == InitStatus /\ [][StatusNext]_vars

InitPrInfo ==
    /\ PrInfoInit
    /\ StatusIdle
    /\ MergeIdle
    /\ MergedPrsIdle
    /\ PrCommitsIdle
    /\ DefaultBranchIdle
    /\ BranchesIdle
    /\ RemoteUrlIdle
SpecPrInfo == InitPrInfo /\ [][PrInfoNext]_vars

InitMerge ==
    /\ MergeInit
    /\ StatusIdle
    /\ PrInfoIdle
    /\ MergedPrsIdle
    /\ PrCommitsIdle
    /\ DefaultBranchIdle
    /\ BranchesIdle
    /\ RemoteUrlIdle
SpecMerge == InitMerge /\ [][MergeNext]_vars

InitMergedPrs ==
    /\ MergedPrsInit
    /\ StatusIdle
    /\ PrInfoIdle
    /\ MergeIdle
    /\ PrCommitsIdle
    /\ DefaultBranchIdle
    /\ BranchesIdle
    /\ RemoteUrlIdle
SpecMergedPrs == InitMergedPrs /\ [][MergedPrsNext]_vars

InitPrCommits ==
    /\ PrCommitsInit
    /\ StatusIdle
    /\ PrInfoIdle
    /\ MergeIdle
    /\ MergedPrsIdle
    /\ DefaultBranchIdle
    /\ BranchesIdle
    /\ RemoteUrlIdle
SpecPrCommits == InitPrCommits /\ [][PrCommitsNext]_vars

InitDefaultBranch ==
    /\ DefaultBranchInit
    /\ StatusIdle
    /\ PrInfoIdle
    /\ MergeIdle
    /\ MergedPrsIdle
    /\ PrCommitsIdle
    /\ BranchesIdle
    /\ RemoteUrlIdle
SpecDefaultBranch == InitDefaultBranch /\ [][DefaultBranchNext]_vars

InitBranches ==
    /\ BranchesInit
    /\ StatusIdle
    /\ PrInfoIdle
    /\ MergeIdle
    /\ MergedPrsIdle
    /\ PrCommitsIdle
    /\ DefaultBranchIdle
    /\ RemoteUrlIdle
SpecBranches == InitBranches /\ [][BranchesNext]_vars

InitRemoteUrl ==
    /\ RemoteUrlInit
    /\ StatusIdle
    /\ PrInfoIdle
    /\ MergeIdle
    /\ MergedPrsIdle
    /\ PrCommitsIdle
    /\ DefaultBranchIdle
    /\ BranchesIdle
SpecRemoteUrl == InitRemoteUrl /\ [][RemoteUrlNext]_vars

----------------------------------------------------------------------------
(***************************************************************************)
(* C1                                                                      *)
(***************************************************************************)

\* the last commit's date is a timestamp
Dated == parse_from_rfc3339(last_commit_date).ok

\* the age of the last commit, in ticks, when its date parses
Age == now - parse_from_rfc3339(last_commit_date).instant

----------------------------------------------------------------------------
(***************************************************************************)
(* C3, C4, C5: the extraction rules as the claims state them               *)
(***************************************************************************)

\* the character of s at position i, "" past its end
At(s, i) == IF i \in 1..Len(s) THEN SubSeq(s, i, i) ELSE ""

\* the length of the run of decimal digits of s that starts at position i
RECURSIVE RunLength(_, _)
RunLength(s, i) ==
    IF is_ascii_digit(At(s, i))
    THEN 1 + RunLength(s, i + 1)
    ELSE 0

\* the run of decimal digits of s that starts at position i
RunAt(s, i) == SubSeq(s, i, i + RunLength(s, i) - 1)

\* the value of a text of decimal digits, -1 when it exceeds i32::MAX
RECURSIVE DecimalValue(_)
DecimalValue(digits) ==
    IF digits = "" THEN 0
    ELSE LET front == DecimalValue(SubSeq(digits, 1, Len(digits) - 1))
             d == to_digit(At(digits, Len(digits)))
         IN  IF front = -1 \/ front > (I32_MAX - d) \div 10 THEN -1
             ELSE front * 10 + d

\* a number is readable at position i: a run of digits that fits an i32
Readable(s, i) == RunLength(s, i) > 0 /\ DecimalValue(RunAt(s, i)) # -1

First(S) == CHOOSE i \in S : \A j \in S : i <= j

\* rule 1: "Merge pull request #", digits, a space
Rule1(s) ==
    /\ starts_with(s, MergePrefix)
    /\ Readable(s, Len(MergePrefix) + 1)
    /\ At(s, Len(MergePrefix) + 1 + RunLength(s, Len(MergePrefix) + 1)) = " "

\* rule 2: the positions of the (#<digits>) tokens of s
ParenTokens(s) ==
    {i \in 1..Len(s) : /\ At(s, i) = "(" /\ At(s, i + 1) = "#"
                       /\ Readable(s, i + 2)
                       /\ At(s, i + 2 + RunLength(s, i + 2)) = ")"}

\* rule 3: the positions of the #<digits> runs of s
HashRuns(s) == {i \in 1..Len(s) : At(s, i) = "#" /\ Readable(s, i + 1)}

ClaimedNumber(s) ==
    IF Rule1(s) THEN Some(DecimalValue(RunAt(s, Len(MergePrefix) + 1)))
    ELSE IF ParenTokens(s) # {}
         THEN Some(DecimalValue(RunAt(s, First(ParenTokens(s)) + 2)))
    ELSE IF HashRuns(s) # {}
         THEN Some(DecimalValue(RunAt(s, First(HashRuns(s)) + 1)))
    ELSE NoneInt

ClaimedTitle(s) ==
    IF Rule1(s)
    THEN LET tail == Suffix(s, Len(MergePrefix) + 2
                                 + RunLength(s, Len(MergePrefix) + 1))
         IN  IF starts_with(tail, FromPrefix)
             THEN Some(strip_prefix(tail, FromPrefix))
             ELSE Some(tail)
    ELSE IF ParenTokens(s) # {}
         THEN LET before == trim(SubSeq(s, 1, First(ParenTokens(s)) - 1))
              IN  IF before = "" THEN NoneStr ELSE Some(before)
    ELSE NoneStr

\* a subject with a sign character ("+" or "-") somewhere
Signed(s) == \E i \in 1..Len(s) : At(s, i) \in {"+", "-"}

\* C3 (as claimed): the number parse_pr_info returns is the one the rules
\* give, tried in order: "Merge pull request #<digits> "; else a (#<digits>)
\* token anywhere in the subject; else the first #<digits> run; else absent.
\* Stated for the subjects without a sign character, so that a violation
\* does not rest on the signed numbers of C5.
C3_AsClaimed ==
    (pi_pc = "done" /\ ~Signed(subject)) =>
        pr_info.number = ClaimedNumber(subject)

\* C4 (as claimed): the title is determined by the rule that supplied the
\* number: rule 1, the text after the number and an optional "from "; a
\* (#<digits>) token anywhere, the trimmed text before its parenthesis,
\* absent when empty; otherwise absent.  A title is never present without a
\* number.  Stated for the subjects without a sign character, as C3 is.
C4_AsClaimed ==
    (pi_pc = "done" /\ ~Signed(subject)) =>
        /\ pr_info.title = ClaimedTitle(subject)
        /\ pr_info.title.some => pr_info.number.some

\* C5 (as claimed): every number returned is the non-negative value of a run
\* of decimal digits of the subject: a candidate with a non-digit character
\* (a sign), or empty, or overflowing, is no match.
C5_AsClaimed ==
    (pi_pc = "done" /\ pr_info.number.some) =>
        /\ pr_info.number.v >= 0
        /\ \E i \in 1..Len(subject) :
              /\ Readable(subject, i)
              /\ DecimalValue(RunAt(subject, i)) = pr_info.number.v

\* Where the subject holds no sign character and its first "(#" (if any)
\* opens a (#<digits>) token, the number and the title are the claimed ones.
FirstParenIsToken(s) == find(s, "(#") = 0 \/ find(s, "(#") \in ParenTokens(s)

C3_C4_Agreement ==
    (pi_pc = "done" /\ ~Signed(subject) /\ FirstParenIsToken(subject)) =>
        /\ pr_info.number = ClaimedNumber(subject)
        /\ pr_info.title = ClaimedTitle(subject)

----------------------------------------------------------------------------
(***************************************************************************)
(* C2                                                                      *)
(***************************************************************************)

FullShas(records) == [i \in 1..Len(records) |-> records[i].full_sha]

\* C2 (as claimed): whenever page * per_page fits the integer type, the
\* call returns the records at history positions [page * per_page,
\* min(n, (page + 1) * per_page)), in history order, and has_more is true
\* exactly when n > (page + 1) * per_page.
C2_AsClaimed ==
    (/\ mc_pc = "done"
     /\ merge_result.kind # "Err"
     /\ ~Overflows(page * per_page)) =>
        /\ merge_result.kind = "Ok"
        /\ FullShas(merge_result.nodes) =
              FullShas(SubSeq(merge_history, page * per_page + 1,
                              Min(Len(merge_history), (page + 1) * per_page)))
        /\ Len(merge_result.nodes) <= per_page
        /\ merge_result.has_more = (Len(merge_history) > (page + 1) * per_page)

\* Where per_page + 1 does not overflow either, the claimed page is the one
\* returned.
C2_BelowMax ==
    (/\ mc_pc = "done"
     /\ merge_result.kind # "Err"
     /\ ~Overflows(page * per_page)
     /\ per_page < U32_MAX) =>
        /\ merge_result.kind = "Ok"
        /\ FullShas(merge_result.nodes) =
              FullShas(SubSeq(merge_history, page * per_page + 1,
                              Min(Len(merge_history), (page + 1) * per_page)))
        /\ merge_result.has_more = (Len(merge_history) > (page + 1) * per_page)

----------------------------------------------------------------------------
(***************************************************************************)
(* C6                                                                      *)
(***************************************************************************)

\* the positions of the raw records that carry both merge fields
Merged(prs) ==
    {i \in 1..Len(prs) : prs[i].merged_at.some /\ prs[i].merge_commit_sha.some}

\* the k-th smallest element of a set of positions
Nth(S, k) == CHOOSE i \in S : Cardinality({j \in S : j < i}) = k - 1

\* C6: whatever list the remote answers with and whatever the limit, the
\* call returns the first `limit` of the raw records that carry both a merge
\* timestamp and a merge-commit hash, in the remote's order: no record
\* lacking either field, and never more than `limit` records.
C6_MergedPrs ==
    (mp_pc = "done" /\ merged_result.kind = "Ok") =>
        LET out == merged_result.prs
            M == Merged(raw_prs)
        IN  /\ Len(out) = Min(limit, Cardinality(M))
            /\ \A k \in 1..Len(out) :
                  LET pr == raw_prs[Nth(M, k)] IN
                  /\ out[k].number = pr.number
                  /\ out[k].title = pr.title
                  /\ out[k].merged_at = pr.merged_at.v
                  /\ out[k].merge_commit_sha = pr.merge_commit_sha.v
            /\ \A i \in 1..Len(raw_prs) :
                  i \notin M => \A k \in 1..Len(out) :
                                   out[k].number # raw_prs[i].number

\* a record lacking a merge field is skipped before one that is returned,
\* and the limit cuts a qualifying record off
C6_Witness ==
    /\ mp_pc = "done" /\ merged_result.kind = "Ok"
    /\ limit = 1
    /\ Len(merged_result.prs) = 1
    /\ Cardinality(Merged(raw_prs)) = 2
    /\ 1 \notin Merged(raw_prs)
    /\ merged_result.prs[1].number = 2

----------------------------------------------------------------------------
(***************************************************************************)
(* C7                                                                      *)
(***************************************************************************)

\* the lookups that failed as the claim counts them: the command failed,
\* a non-success status, an unparseable response
FailedLookups ==
    {i \in 1..Len(pr_numbers) :
        lookups[i].kind \in {"command failed", "status failure", "unparseable"}}

\* the first 7 characters of each hash
Short(shas) == [i \in 1..Len(shas) |-> SubSeq(shas[i], 1, Min(7, Len(shas[i])))]

Distinct(list) ==
    \A i, j \in 1..Len(list) : i # j => list[i] # list[j]

\* C7 (as claimed): for any list of N numbers, if exactly one of the N
\* lookups fails, the call returns Ok with a map of exactly N - 1 entries:
\* one for each number whose lookup succeeded, holding its hashes in order,
\* each cut to its first 7 characters, and none for the failed number.
C7_AsClaimed ==
    (rc_pc = "done" /\ Cardinality(FailedLookups) = 1) =>
        /\ commits_result.kind = "Ok"
        /\ Cardinality(DOMAIN commits_result.map) = Len(pr_numbers) - 1
        /\ \A i \in 1..Len(pr_numbers) :
              IF i \in FailedLookups
              THEN pr_numbers[i] \notin DOMAIN commits_result.map
              ELSE /\ pr_numbers[i] \in DOMAIN commits_result.map
                   /\ commits_result.map[pr_numbers[i]] = Short(lookups[i].shas)

\* C7 (amended): the call always returns Ok; for a list of N distinct
\* numbers, if exactly one of the N lookups fails, the map has exactly
\* N - 1 entries: one for each number whose lookup succeeded, holding its
\* hashes in order, each cut to its first 7 characters, and none for the
\* failed number.
C7_PartialFailure ==
    rc_pc = "done" =>
        /\ commits_result.kind = "Ok"
        /\ (Distinct(pr_numbers) /\ Cardinality(FailedLookups) = 1) =>
              /\ Cardinality(DOMAIN commits_result.map) = Len(pr_numbers) - 1
              /\ \A i \in 1..Len(pr_numbers) :
                    IF i \in FailedLookups
                    THEN pr_numbers[i] \notin DOMAIN commits_result.map
                    ELSE /\ pr_numbers[i] \in DOMAIN commits_result.map
                         /\ commits_result.map[pr_numbers[i]]
                               = Short(lookups[i].shas)

\* two distinct numbers, the first lookup failed, the second returned a
\* hash longer than 7 characters: the call has returned
C7_Witness ==
    /\ rc_pc = "done"
    /\ Len(pr_numbers) = 2 /\ Distinct(pr_numbers)
    /\ FailedLookups = {1}
    /\ DOMAIN commits_result.map = {pr_numbers[2]}
    /\ commits_result.map[pr_numbers[2]] = <<"0123456", "abc">>

----------------------------------------------------------------------------
(***************************************************************************)
(* C9                                                                      *)
(***************************************************************************)

\* a probe succeeded: git ran, exited with success and printed UTF-8
Succeeded(proc) == proc.spawn = "ok" /\ proc.success /\ proc.utf8

\* the remote's symbolic default head is resolvable: the probe succeeded
\* and names a ref under refs/remotes/origin/
Resolvable(proc) ==
    Succeeded(proc) /\ starts_with(trim(proc.stdout), OriginPrefix)

\* C9: get_default_branch never fails, whatever the probes return; it
\* returns the remote's symbolic default head branch if that is resolvable,
\* otherwise "main" if a ref named main exists, otherwise "master" if a ref
\* named master exists, otherwise "HEAD".
C9_DefaultBranch ==
    db_pc = "done" =>
        /\ default_result.ok
        /\ default_result.v =
              IF Resolvable(origin_head)
              THEN Suffix(trim(origin_head.stdout), Len(OriginPrefix) + 1)
              ELSE IF Succeeded(verify_main) THEN "main"
              ELSE IF Succeeded(verify_master) THEN "master"
              ELSE "HEAD"

\* the first two probes fail, the third finds master
C9_Witness ==
    /\ db_pc = "done"
    /\ origin_head \in Failures
    /\ verify_main \in Failures
    /\ Succeeded(verify_master)
    /\ default_result = GitOk("master")

\* each way out of the chain is taken
C9_WitnessOrigin ==
    db_pc = "done" /\ default_result = GitOk("develop")

----------------------------------------------------------------------------
(***************************************************************************)
(* C8, C10                                                                 *)
(***************************************************************************)

\* the local branches of the repository
Local == {refs[i] : i \in 1..Len(refs)}

\* the per-branch computation (ahead/behind, last commit, fork point)
\* succeeds: git answers each of its commands
Computable(ref) ==
    /\ Succeeded(git_rev_list(ref))
    /\ Succeeded(git_log(ref))
    /\ Succeeded(git_merge_base(ref))
    /\ Succeeded(git_log_date(ref))

\* the records returned
Returned ==
    {branches_result.branches[i] : i \in 1..Len(branches_result.branches)}

\* C8: list_branches fails only when the enumeration of the local branch
\* names fails; otherwise it returns one Branch record for exactly the local
\* branch names that differ from the base branch and whose per-branch
\* computation succeeded: a branch whose computation errors is omitted
\* without failing the listing, and the base branch is never in the result.
C8_ListBranches ==
    br_pc = "done" =>
        /\ branches_result.kind = "Err" <=> ~Succeeded(listing)
        /\ branches_result.kind = "Ok" =>
              LET expected == {ref.name : ref \in
                                 {r \in Local : /\ r.name # default_branch
                                                /\ Computable(r)}}
              IN  /\ {b.name : b \in Returned} = expected
                  /\ Len(branches_result.branches) = Cardinality(expected)

\* a listing of three local branches: the base, one that is analysed and
\* one whose computation fails
C8_Witness ==
    /\ br_pc = "done"
    /\ branches_result.kind = "Ok"
    /\ Len(refs) = 3
    /\ \E r \in Local : r.name = default_branch
    /\ \E r \in Local : r.name # default_branch /\ ~Computable(r)
    /\ Len(branches_result.branches) = 1

\* a branch that shares no history with the base, every other command
\* answering for it
Disjoint(ref) ==
    ~ref.shared /\ ref.fault = "" /\ ref.name # default_branch

\* C10 (as claimed): a branch with no common ancestor with the base still
\* produces a Branch record, with both fork-point fields absent; in every
\* record the two fork-point fields are both present or both absent.
C10_AsClaimed ==
    (br_pc = "done" /\ branches_result.kind = "Ok") =>
        /\ \A ref \in Local :
              Disjoint(ref) =>
                  \E b \in Returned :
                      /\ b.name = ref.name
                      /\ ~b.diverged_from_sha.some
                      /\ ~b.diverged_from_date.some
        /\ \A b \in Returned :
              b.diverged_from_sha.some <=> b.diverged_from_date.some

\* what holds of the claim: the two fork-point fields of a record are both
\* present or both absent (and a branch without common history has no
\* record at all)
C10_BothOrNeither ==
    (br_pc = "done" /\ branches_result.kind = "Ok") =>
        /\ \A b \in Returned :
              b.diverged_from_sha.some <=> b.diverged_from_date.some
        /\ \A ref \in Local :
              Disjoint(ref) => \A b \in Returned : b.name # ref.name

----------------------------------------------------------------------------
(***************************************************************************)
(* C11                                                                     *)
(***************************************************************************)

\* the instant of the last commit of a record
Instant(b) == parse_from_rfc3339(b.last_commit_date).instant

\* C11 (as claimed): the list returned by list_branches is sorted by
\* last-commit timestamp descending: for any two records at positions
\* i < j, the last-commit instant of record i is not earlier than that of
\* record j, whatever UTC offset each timestamp is written with.
C11_AsClaimed ==
    (br_pc = "done" /\ branches_result.kind = "Ok") =>
        LET bs == branches_result.branches IN
        \A i \in 1..Len(bs), j \in 1..Len(bs) :
            i < j => Instant(bs[i]) >= Instant(bs[j])

\* what holds of the claim: the list is in descending order of the text of
\* the timestamps
C11_LexicalOrder ==
    (br_pc = "done" /\ branches_result.kind = "Ok") =>
        LET bs == branches_result.branches IN
        \A i \in 1..Len(bs), j \in 1..Len(bs) :
            i < j =>
                cmp(bs[i].last_commit_date, bs[j].last_commit_date) # "Less"

----------------------------------------------------------------------------
(***************************************************************************)
(* C12                                                                     *)
(***************************************************************************)

Unsigned(text) == find(text, "-") = 0

\* what holds of the claim: a branch whose counts are printed without a
\* minus sign has a record, with counts that are not negative; a count that
\* is missing or too large for i32 is 0 in it
C12_UnsignedCounts ==
    (br_pc = "done" /\ branches_result.kind = "Ok") =>
        \A ref \in Local :
            (ref.name # default_branch /\ Computable(ref)
                /\ Unsigned(ref.counts)) =>
                \E b \in Returned :
                    /\ b.name = ref.name
                    /\ b.commits_ahead >= 0
                    /\ b.commits_behind >= 0
                    /\ ref.counts = "2147483648\t+2\n" =>
                          b.commits_behind = 0 /\ b.commits_ahead = 2
                    /\ ref.counts = "7\n" =>
                          b.commits_behind = 7 /\ b.commits_ahead = 0
                    /\ ref.counts = "\n" =>
                          b.commits_behind = 0 /\ b.commits_ahead = 0

----------------------------------------------------------------------------
(***************************************************************************)
(* C13                                                                     *)
(***************************************************************************)

\* every form of the URL has been parsed
AllParsed == \A form \in Forms : parsed_urls[form] # NotParsed

\* C13 (as claimed): parse_remote_url maps the three URL forms of the same
\* repository, git@github.com:OWNER/REPO.git,
\* https://github.com/OWNER/REPO.git and https://github.com/OWNER/REPO, to
\* the identical pair (OWNER, REPO), for every owner and repository name.
C13_AsClaimed ==
    AllParsed =>
        \A form \in Forms : parsed_urls[form] = Repository(remote_owner, remote_repo)

\* C13 (amended): the three forms map to the identical pair (OWNER, REPO)
\* for every owner and every repository name that does not itself end in
\* ".git"; for a name that does, the form without the suffix loses the
\* name's last four characters and the other two forms still agree.
C13_RemoteUrl ==
    AllParsed =>
        /\ parsed_urls["ssh"] = Repository(remote_owner, remote_repo)
        /\ parsed_urls["https .git"] = Repository(remote_owner, remote_repo)
        /\ parsed_urls["https"] =
              Repository(remote_owner,
                         IF ends_with(remote_repo, ".git")
                         THEN SubSeq(remote_repo, 1, Len(remote_repo) - 4)
                         ELSE remote_repo)

\* the three forms of a repository whose name holds ".git" inside and the
\* host's name as owner, all parsed to the same pair
C13_Witness ==
    /\ AllParsed
    /\ remote_owner = "github.com"
    /\ remote_repo = "dot.git.io"
    /\ \A form \in Forms : parsed_urls[form] = Repository("github.com", "dot.git.io")

----------------------------------------------------------------------------
(***************************************************************************)
(* C14                                                                     *)
(***************************************************************************)

\* the workers that have ended
Ended == {i \in 1..Len(handles) : handles[i].state = "finished"}

\* the lookups that returned commits
Answered == {i \in 1..Len(pr_numbers) : lookups[i].kind = "commits"}

\* the mapping the outcomes of the lookups determine: an entry for each
\* number with an answered lookup, holding the hashes of the last such
\* lookup in the order of the request
ExpectedMap ==
    [num \in {pr_numbers[i] : i \in Answered} |->
        LET last == CHOOSE i \in Answered :
                        /\ pr_numbers[i] = num
                        /\ \A j \in Answered : pr_numbers[j] = num => j <= i
        IN  Short(lookups[last].shas)]

\* a step in which a worker ends
WorkerStep ==
    \E i \in 1..Len(handles) :
        handles[i].state = "running" /\ handles'[i].state = "finished"

\* one worker per requested number, all started before the first join; the
\* call returns only after every worker has ended, with the mapping the
\* outcomes determine
OnePerNumber ==
    /\ Len(handles) = Len(pr_numbers)
    /\ rc_pc \in {"join", "done"} =>
          \A i \in 1..Len(handles) : handles[i].state # "unspawned"
    /\ rc_pc = "done" =>
          /\ Ended = 1..Len(pr_numbers)
          /\ commits_result = CommitsOk(ExpectedMap)

\* C14 (as claimed): one worker is started per requested number; no worker
\* writes the result mapping; results are merged into the mapping only
\* after every worker has completed (or failed); the call returns only
\* after all workers have terminated, and for fixed lookup outcomes the
\* returned mapping is the same under every interleaving.
C14_AsClaimed ==
    /\ [](OnePerNumber)
    /\ [](results # EmptyMap => Ended = 1..Len(pr_numbers))
    /\ [][WorkerStep => results' = results]_vars

\* C14 (amended): as claimed, except that what a worker returned is merged
\* into the mapping as soon as that worker has been joined, in the order of
\* the request, while later workers may still be running: every entry of
\* the mapping comes from a worker that has ended and been joined.
C14_Workers ==
    /\ [](OnePerNumber)
    /\ [](\A num \in DOMAIN results :
            \E i \in Ended :
                /\ rc_pc \in {"join", "done"} /\ i < next_handle
                /\ handles[i].value = Some([num |-> num, shas |-> results[num]]))
    /\ [][WorkerStep => results' = results]_vars

\* the call has returned for a request that names one number twice, the
\* two lookups answered differently, and a number whose lookup failed
C14_Witness ==
    /\ rc_pc = "done"
    /\ Len(pr_numbers) = 3
    /\ pr_numbers[1] = pr_numbers[3]
    /\ Answered = {1, 3}
    /\ lookups[1] # lookups[3]
    /\ commits_result.map = ExpectedMap
    /\ DOMAIN commits_result.map = {pr_numbers[1]}

\* a worker spawned later has ended before an earlier one
C14_OutOfOrder ==
    /\ Len(pr_numbers) = 3
    /\ handles[1].state = "running"
    /\ handles[3].state = "finished"

\* the first worker's commits are in the mapping while the last worker runs
C14_MergedEarly ==
    /\ rc_pc = "join"
    /\ results # EmptyMap
    /\ handles[Len(handles)].state = "running"

----------------------------------------------------------------------------
(***************************************************************************)
(* C15                                                                     *)
(***************************************************************************)

\* the records of the history behind the first page * per_page (the product
\* of the two numbers, not of their 32-bit values)
BehindProduct ==
    IF Len(merge_history) > page * per_page
    THEN SubSeq(merge_history, page * per_page + 1, Len(merge_history))
    ELSE <<>>

\* the records git handed back: those returned, and the one dropped when
\* there are more
Fetched == Len(merge_result.nodes) + (IF merge_result.has_more THEN 1 ELSE 0)

\* C15 (as claimed): for every page index and page size, the number of
\* history records skipped is the product page * per_page and the number
\* fetched is per_page + 1, with no wrap-around and no abort: a large
\* page/per_page pair is never answered with the records of an earlier page.
C15_AsClaimed ==
    (mc_pc = "done" /\ merge_result.kind # "Err") =>
        /\ merge_result.kind = "Ok"
        /\ Fetched = Min(per_page + 1, Len(BehindProduct))
        /\ FullShas(merge_result.nodes) =
              FullShas(SubSeq(BehindProduct, 1, Len(merge_result.nodes)))

\* what holds of the claim: it is so whenever neither page * per_page nor
\* per_page + 1 exceeds u32::MAX
C15_InRange ==
    (/\ mc_pc = "done"
     /\ merge_result.kind # "Err"
     /\ ~Overflows(page * per_page)
     /\ ~Overflows(per_page + 1)) =>
        /\ merge_result.kind = "Ok"
        /\ Fetched = Min(per_page + 1, Len(BehindProduct))
        /\ FullShas(merge_result.nodes) =
              FullShas(SubSeq(BehindProduct, 1, Len(merge_result.nodes)))

\* without overflow checks, a page past the first answered with the newest
\* records of the history
C15_EarlierPage ==
    /\ mc_pc = "done"
    /\ ~overflow_checks
    /\ page > 0
    /\ Overflows(page * per_page)
    /\ merge_result.kind = "Ok"
    /\ merge_result.nodes # <<>>
    /\ merge_result.nodes[1].full_sha = merge_history[1].full_sha

\* with overflow checks, the call aborted
C15_Abort ==
    mc_pc = "done" /\ overflow_checks /\ merge_result.kind = "panic"

=============================================================================
